---- MODULE Spec2Model ----
(***************************************************************************)
(* Model of na62-farm-lib's L0 MEP decoder (src/l0/MEP.h) and of its burst *)
(* identifier handler (src/monitoring/BurstIdHandler.h).                   *)
(*                                                                         *)
(* The specifications of the module:                                       *)
(*   Spec         the fragment completion protocol of one MEP              *)
(*                (MEP::deleteEvent, the hand-off to ~MEP);                *)
(*   FrameSpec    construction of a MEP from a received frame and the      *)
(*                slicing of its payload into fragments;                   *)
(*   BurstSpec    BurstIdHandler under concurrent callers, one step per    *)
(*                shared read or write, the announced ids growing;         *)
(*   PromoteSpec  setNextBurstID with any id and checkBurstIdChange alone, *)
(*                FairPromoteSpec with time passing and periodic polling;  *)
(*   OverrunSpec    deleteEvent called more often than the MEP has         *)
(*                  fragments, the 32-bit counter wrapping round;          *)
(*   LifecycleSpec  one MEP from the received frame to the release of its  *)
(*                  buffer.                                                *)
(* A specification leaves the variables of the parts it does not run       *)
(* untouched.                                                              *)
(***************************************************************************)
EXTENDS Integers, Naturals, Sequences, FiniteSets, TLC

VARIABLES
    \* ---- MEP completion protocol
    eventCount,     \* rawData_->eventCount, the header's fragment count
    eventCount_,    \* std::atomic<int> MEP::eventCount_
    frag,           \* per fragment: where its owner stands in the protocol
    released,       \* how many times ~MEP has freed the frame buffer
    extraTrue,      \* calls beyond the fragments' own that returned true
    \* ---- BurstIdHandler: the static members
    nextBurstId_,
    currentBurstID_,
    lastFinishedBurst_,
    timerMs,        \* EOBReceivedTimer_.elapsed().wall / 1E6
    mutexOwner,     \* burstFinishedMutex_: 0 when free, else the holder
    \* ---- BurstIdHandler: the threads inside its methods
    aPc, aArg,      \* the thread calling setNextBurstID and its argument
    pPc, pRead,     \* the thread calling checkBurstIdChange, the value it read
    fPc, fRead,     \* the threads calling checkBurstFinished, the value read
    sleptMs,        \* time the mutex holder has spent in sleep(2)
    \* ---- BurstIdHandler: history kept for the claims
    fBurst,         \* currentBurstID_ as each checkBurstFinished call saw it,
                    \* kept after a call that found the mutex held
    finishedCalls,  \* onBurstFinished() calls made, per burst id seen
    sinceCallMs,    \* time since setNextBurstID was last entered
    \* ---- MEP construction from a received frame
    dataLength,     \* number of bytes received
    hdr,            \* the MEP_HDR the first bytes of the frame hold
    lenAt,          \* the fragment length a fragment header at an offset holds
    phase,          \* received, constructed, sliced or rejected
    ctorError,      \* what the constructor threw
    sliceError,     \* what initializeMEPFragments threw
    views           \* the fragments' byte ranges, <<offset, length>> each

mepVars == <<eventCount, eventCount_, frag, released, extraTrue>>

burstVars == <<nextBurstId_, currentBurstID_, lastFinishedBurst_, timerMs,
               mutexOwner, aPc, aArg, pPc, pRead, fPc, fRead, sleptMs,
               fBurst, finishedCalls, sinceCallMs>>

frameVars == <<dataLength, hdr, lenAt, phase, ctorError, sliceError, views>>

vars == <<mepVars, burstVars, frameVars>>

(***************************************************************************)
(* MEP completion protocol                                                 *)
(***************************************************************************)

\* Largest eventCount explored (the header field is a uint8_t, 0..255).
MaxEventCount == 6

\* Largest value of int, the type of the atomic counter (32 bits).
IntMax == 2147483647

IntMin == -IntMax - 1

FragmentIds == 1..MaxEventCount

\* --eventCount_ : the value the atomic pre-decrement stores and yields;
\* std::atomic<int> arithmetic wraps in two's complement.
PreDecrement(c) == IF c = IntMin THEN IntMax ELSE c - 1

\* The comparison of deleteEvent with the post-decrement's value (the value
\* before the decrement), as `eventCount_-- == 0` would compute it.
ReachedZeroPostDecrement(c) == c = -1

\* The comparison of deleteEvent off by one: true while one report is missing.
ReachedZeroOffByOne(c) == c = 1

\* The comparison of deleteEvent made with <=, true again for every call that
\* follows the last fragment's.
ReachedZeroOrBelow(c) == c <= 0

\* `--eventCount_ == 0`, c the value the pre-decrement yields.
ReachedZero(c) == c = 0

\* State after construction and fragment initialisation of a MEP with
\* n fragments: the counter is the header's eventCount, no fragment reported.
MEPInit ==
    /\ eventCount \in 0..MaxEventCount
    /\ eventCount_ = eventCount
    /\ frag = [f \in FragmentIds |->
                    IF f <= eventCount THEN "alive" ELSE "none"]
    /\ released = 0
    /\ extraTrue = 0

\* MEP::deleteEvent() with the header's field decremented in place of the
\* counter, --rawData_->eventCount == 0.
deleteEventOnHeader(f) ==
    /\ frag[f] = "alive"
    /\ eventCount' = eventCount - 1
    /\ frag' = [frag EXCEPT ![f] =
                    IF ReachedZero(eventCount') THEN "true" ELSE "false"]
    /\ UNCHANGED <<eventCount_, released, extraTrue, burstVars, frameVars>>

\* MEP::deleteEvent() called for fragment f, which reports exactly once.
\* The decrement and the read of its result are one atomic operation.
deleteEvent(f) ==
    /\ frag[f] = "alive"
    /\ eventCount_' = PreDecrement(eventCount_)
    /\ frag' = [frag EXCEPT ![f] =
                    IF ReachedZero(eventCount_') THEN "true" ELSE "false"]
    /\ UNCHANGED <<eventCount, released, extraTrue, burstVars, frameVars>>

\* ~MEP(): run by the caller that saw deleteEvent return true; frees the
\* frame buffer.
DestroyMEP(f) ==
    /\ frag[f] = "true"
    /\ released' = released + 1
    /\ frag' = [frag EXCEPT ![f] = "destroyed"]
    /\ UNCHANGED <<eventCount, eventCount_, extraTrue, burstVars, frameVars>>

MEPNext ==
    \/ \E f \in FragmentIds : deleteEvent(f)
    \/ \E f \in FragmentIds : DestroyMEP(f)

\* How far from 0, from the start value and from the two ends of the range of
\* int the calls beyond the fragments' own are followed one by one.
MaxOverrun == 3

\* Value at which the count of such calls that returned true stops counting.
MaxTrueCounted == 2

\* The counter is close to 0 or to its start value, or to an end of its range.
NearLandmark(c) ==
    \/ (-MaxOverrun <= c /\ c <= MaxEventCount + MaxOverrun)
    \/ c <= IntMin + MaxOverrun
    \/ c >= IntMax - MaxOverrun

\* The values at which a long run of calls is left to single calls again.
RunTargets == {IntMin + MaxOverrun, MaxEventCount + MaxOverrun}

\* MEP::deleteEvent() called once more, in error, on top of the fragments'
\* own calls.
deleteEventAgain ==
    /\ NearLandmark(eventCount_)
    /\ eventCount_' = PreDecrement(eventCount_)
    /\ extraTrue' = IF ReachedZero(eventCount_') /\ extraTrue < MaxTrueCounted
                        THEN extraTrue + 1 ELSE extraTrue
    /\ UNCHANGED <<eventCount, frag, released, burstVars, frameVars>>

\* A run of such calls that takes the counter down to target without wrapping
\* and without storing 0 on the way: every call of the run returns false.
deleteEventRun(target) ==
    /\ target < eventCount_
    /\ target > 0 \/ eventCount_ <= 0
    /\ eventCount_' = target
    /\ UNCHANGED <<eventCount, frag, released, extraTrue, burstVars,
                   frameVars>>

\* The calls made so far number less than 2^32, the number of values of the
\* counter: the counter has not come back to its start value.
BelowRange == eventCount_' # eventCount

\* Calls of deleteEvent, the fragments' own and others, in any number below
\* 2^32.
OverrunNext ==
    \/ \E f \in FragmentIds : deleteEvent(f) /\ BelowRange
    \/ deleteEventAgain /\ BelowRange
    \/ \E target \in RunTargets : deleteEventRun(target) /\ BelowRange

\* The MEP variables while another specification runs.
MEPIdle ==
    /\ eventCount = 0
    /\ eventCount_ = 0
    /\ frag = [f \in FragmentIds |-> "none"]
    /\ released = 0
    /\ extraTrue = 0

(***************************************************************************)
(* MEP construction and fragment slicing                                   *)
(*                                                                         *)
(* MEP_HDR is declared in MEP.h; the bodies of the constructor and of      *)
(* initializeMEPFragments are in MEP.cpp and are modelled from their       *)
(* documented contract.                                                    *)
(***************************************************************************)

\* Widths of the fields of MEP_HDR, in bits.
FirstEventNumBits == 24
SourceIDBits == 8
MepLengthBits == 16
EventCountBits == 8
SourceSubIDBits == 8

\* sizeof(MEP_HDR) had firstEventNum been a plain uint32_t, not a bit-field.
HeaderSizeNoBitField ==
    (32 + SourceIDBits + MepLengthBits + EventCountBits + SourceSubIDBits)
        \div 8

\* sizeof(MEP_HDR): the struct is packed, its size is the sum of its fields.
HeaderSize ==
    (FirstEventNumBits + SourceIDBits + MepLengthBits + EventCountBits
        + SourceSubIDBits) \div 8

\* Largest number of payload bytes explored.
MaxPayload == 3

\* Largest fragment length a fragment header holds, in bytes.
MaxFragLen == 2

\* Largest eventCount of a received header explored.
MaxFrameEvents == 3

\* How far below sizeof(MEP_HDR) the received lengths explored start.
MaxShortfall == 2

MaxDataLength == HeaderSize + MaxPayload

PayloadOffsets == HeaderSize..(MaxDataLength - 1)

\* The registry of SourceIDManager: source id -> dense index.
DenseIndexOf == (5 :> 2)

\* The source ids of the headers explored: one the registry maps, one not.
SourceIDs == {5, 9}

Headers ==
    [firstEventNum : {0, 2 ^ FirstEventNumBits - 1},
     sourceID : SourceIDs,
     mepLength : (HeaderSize - 1)..MaxDataLength,
     eventCount : 0..MaxFrameEvents,
     sourceSubID : {0, 2 ^ SourceSubIDBits - 1}]

\* SourceIDManager::sourceIDToNum(id): the dense index, -1 when unmapped.
sourceIDToNum(id) ==
    IF id \in DOMAIN DenseIndexOf THEN DenseIndexOf[id] ELSE -1

\* MEP::getSourceIDNum() of a MEP with header h.
getSourceIDNum(h) == sourceIDToNum(h.sourceID)

\* Whether the registry maps the header's source id.
SourceKnown(h) == getSourceIDNum(h) # -1

\* The constructor's checks without the comparison of mepLength for frames
\* longer than the header declares.
ConstructErrorLongAccepted(len, h) ==
    IF len < HeaderSize \/ h.mepLength > len
       THEN "MalformedFrame"
       ELSE IF ~SourceKnown(h) THEN "UnknownSource" ELSE "none"

\* The constructor's checks without the lookup of the source id.
ConstructErrorNoSourceCheck(len, h) ==
    IF len < HeaderSize \/ h.mepLength # len THEN "MalformedFrame" ELSE "none"

\* What MEP::MEP throws for a frame of len bytes starting with header h.
ConstructError(len, h) ==
    IF len < HeaderSize \/ h.mepLength # len
       THEN "MalformedFrame"
       ELSE IF ~SourceKnown(h) THEN "UnknownSource" ELSE "none"

\* The walk trusting the fragments' lengths: it only checks, at the end, that
\* no received byte is left over (bytes read past the end read as 0).
RECURSIVE SliceFromTrusting(_, _, _, _, _, _)
SliceFromTrusting(i, offset, acc, len, count, lens) ==
    IF i = count
       THEN [views |-> acc,
             error |-> IF offset < len THEN "MalformedFrame" ELSE "none"]
       ELSE LET l == IF offset \in DOMAIN lens THEN lens[offset] ELSE 0
            IN  SliceFromTrusting(i + 1, offset + l, Append(acc, <<offset, l>>),
                                  len, count, lens)

\* The walk of initializeMEPFragments from fragment i at offset: the views
\* sliced so far, and the error that ends the walk.
RECURSIVE SliceFrom(_, _, _, _, _, _)
SliceFrom(i, offset, acc, len, count, lens) ==
    IF i = count
       THEN [views |-> acc,
             error |-> IF offset = len THEN "none" ELSE "MalformedFrame"]
       ELSE IF offset >= len
               THEN [views |-> acc, error |-> "MalformedFrame"]
               ELSE IF offset + lens[offset] > len
                       THEN [views |-> acc, error |-> "MalformedFrame"]
                       ELSE SliceFrom(i + 1, offset + lens[offset],
                                      Append(acc, <<offset, lens[offset]>>),
                                      len, count, lens)

\* A frame has been received.
FrameInit ==
    /\ dataLength \in (HeaderSize - MaxShortfall)..MaxDataLength
    /\ hdr \in Headers
    /\ lenAt \in [PayloadOffsets -> 0..MaxFragLen]
    /\ phase = "received"
    /\ ctorError = "none"
    /\ sliceError = "none"
    /\ views = <<>>

\* The construction variables while another specification runs.
FrameIdle ==
    /\ dataLength = 0
    /\ hdr = [firstEventNum |-> 0, sourceID |-> 0, mepLength |-> 0,
              eventCount |-> 0, sourceSubID |-> 0]
    /\ lenAt = [o \in PayloadOffsets |-> 0]
    /\ phase = "idle"
    /\ ctorError = "none"
    /\ sliceError = "none"
    /\ views = <<>>

\* MEP::MEP(data, dataLength, originalData): throws, or yields a decoder whose
\* completion counter is the header's eventCount.
Construct ==
    /\ phase = "received"
    /\ ctorError' = ConstructError(dataLength, hdr)
    /\ IF ctorError' = "none"
          THEN /\ phase' = "constructed"
               /\ eventCount' = hdr.eventCount
               /\ eventCount_' = hdr.eventCount
          ELSE /\ phase' = "rejected"
               /\ UNCHANGED <<eventCount, eventCount_>>
    /\ UNCHANGED <<dataLength, hdr, lenAt, sliceError, views, frag, released,
                   extraTrue, burstVars>>

\* MEP::initializeMEPFragments(data, dataLength): throws, or yields the views
\* and one fragment per view, each still to report.
initializeMEPFragments ==
    /\ phase = "constructed"
    /\ LET r == SliceFrom(0, HeaderSize, <<>>, dataLength, hdr.eventCount,
                          lenAt)
       IN  /\ sliceError' = r.error
           /\ IF r.error = "none"
                 THEN /\ phase' = "sliced"
                      /\ views' = r.views
                      /\ frag' = [f \in FragmentIds |->
                                    IF f <= Len(r.views)
                                       THEN "alive" ELSE "none"]
                 ELSE /\ phase' = "rejected"
                      /\ views' = <<>>
                      /\ UNCHANGED frag
    /\ UNCHANGED <<dataLength, hdr, lenAt, ctorError, eventCount, eventCount_,
                   released, extraTrue, burstVars>>

\* ---- the accessors of a constructed MEP

\* rawData_->sourceID
getSourceID == hdr.sourceID

\* rawData_->firstEventNum
getFirstEventNum == hdr.firstEventNum

\* rawData_->eventCount
getNumberOfFragments == eventCount

\* rawData_->mepLength
getLength == hdr.mepLength

\* rawData_->sourceSubID
getSourceSubID == hdr.sourceSubID

\* etherFrame_, the received frame: its length and its bytes.
getUDPPack == <<dataLength, hdr, lenAt>>

FrameNext ==
    \/ Construct
    \/ initializeMEPFragments

(***************************************************************************)
(* BurstIdHandler                                                          *)
(*                                                                         *)
(* The three id fields and the timer are plain statics read and written    *)
(* without synchronisation, so every method is split into one step per     *)
(* shared read or write and the threads' steps interleave freely.  Time    *)
(* advances by Tick; the timer and the other clocks saturate at MaxTimeMs. *)
(***************************************************************************)

\* Largest burst id passed to initialize and setNextBurstID.
MaxBurstId == 2

\* Number of threads polling checkBurstFinished.
NumFinishers == 2

\* Time that passes in one Tick, in milliseconds.
TickMs == 1000

\* Value at which the modelled clocks stop counting, in milliseconds.
MaxTimeMs == 2000

\* Value at which the count of onBurstFinished calls per burst stops counting.
MaxCallsCounted == 2

\* The debounce threshold of checkBurstIdChange, in milliseconds.
DebounceMs == 1000

\* The settling delay of checkBurstFinished, sleep(2), in seconds.
SleepSeconds == 2

BurstIds == 0..MaxBurstId

Finishers == 1..NumFinishers

\* Value of a register or history slot that holds nothing, and of an id no
\* burst has.
None == 0 - 1

Advance(t) == IF t + TickMs > MaxTimeMs THEN MaxTimeMs ELSE t + TickMs

\* nextBurstId_ == currentBurstID_
isInBurst == nextBurstId_ = currentBurstID_

\* The comparison made on microseconds, elapsed().wall / 1E3 > 1000 * 1000.
DebounceOverMicros(ms) == ms > DebounceMs * 1000

\* EOBReceivedTimer_.elapsed().wall / 1E6 > 1000
DebounceOver(ms) == ms > DebounceMs

\* The burst id the process starts with.
StartBurstId == 0

\* State after initialize(StartBurstId).  initialize does not touch
\* lastFinishedBurst_, which keeps the value of its definition: the start id
\* (a zero-initialised static) or an id no burst has.
BurstInit ==
    /\ currentBurstID_ = StartBurstId
    /\ nextBurstId_ = currentBurstID_
    /\ lastFinishedBurst_ \in {StartBurstId, None}
    /\ timerMs = 0
    /\ mutexOwner = 0
    /\ aPc = "idle" /\ aArg = None
    /\ pPc = "idle" /\ pRead = None
    /\ fPc = [f \in Finishers |-> "idle"]
    /\ fRead = [f \in Finishers |-> None]
    /\ fBurst = [f \in Finishers |-> None]
    /\ sleptMs = 0
    /\ finishedCalls = [b \in BurstIds |-> 0]
    /\ sinceCallMs = MaxTimeMs

\* The BurstIdHandler variables while another specification runs.
BurstIdle ==
    /\ currentBurstID_ = 0
    /\ nextBurstId_ = 0
    /\ lastFinishedBurst_ = None
    /\ timerMs = 0
    /\ mutexOwner = 0
    /\ aPc = "idle" /\ aArg = None
    /\ pPc = "idle" /\ pRead = None
    /\ fPc = [f \in Finishers |-> "idle"]
    /\ fRead = [f \in Finishers |-> None]
    /\ fBurst = [f \in Finishers |-> None]
    /\ sleptMs = 0
    /\ finishedCalls = [b \in BurstIds |-> 0]
    /\ sinceCallMs = MaxTimeMs

sharedVars == <<nextBurstId_, currentBurstID_, lastFinishedBurst_, timerMs,
                mutexOwner>>
announcerVars == <<aPc, aArg>>
promoterVars == <<pPc, pRead>>
finisherVars == <<fPc, fRead, fBurst, sleptMs, finishedCalls>>
historyVars == <<sinceCallMs>>
otherVars == <<mepVars, frameVars>>

\* ---- setNextBurstID(nextBurstID)

\* nextBurstId_ = nextBurstID;
SetNextWrite(id) ==
    /\ aPc = "idle"
    /\ nextBurstId_' = id
    /\ aPc' = "start" /\ aArg' = id
    /\ sinceCallMs' = 0
    /\ UNCHANGED <<currentBurstID_, lastFinishedBurst_, timerMs, mutexOwner,
                   promoterVars, finisherVars, otherVars>>

\* The timer restarted only when the announced id differs from the current
\* one, that is only when the announcement changes the state to Draining.
SetNextStartTimerIfChanged ==
    /\ aPc = "start"
    /\ timerMs' = IF aArg # currentBurstID_ THEN 0 ELSE timerMs
    /\ aPc' = "idle" /\ aArg' = None
    /\ UNCHANGED <<nextBurstId_, currentBurstID_, lastFinishedBurst_,
                   mutexOwner, promoterVars, finisherVars, otherVars,
                   historyVars>>

\* EOBReceivedTimer_.start();
SetNextStartTimer ==
    /\ aPc = "start"
    /\ timerMs' = 0
    /\ aPc' = "idle" /\ aArg' = None
    /\ UNCHANGED <<nextBurstId_, currentBurstID_, lastFinishedBurst_,
                   mutexOwner, promoterVars, finisherVars, otherVars,
                   historyVars>>

\* ---- checkBurstIdChange()

\* reads nextBurstId_
PromoteReadNext ==
    /\ pPc = "idle"
    /\ pRead' = nextBurstId_
    /\ pPc' = "cur"
    /\ UNCHANGED <<sharedVars, announcerVars, finisherVars, otherVars,
                   historyVars>>

\* nextBurstId_ != currentBurstID_ : reads currentBurstID_
PromoteReadCurrent ==
    /\ pPc = "cur"
    /\ IF pRead # currentBurstID_
          THEN pPc' = "timer" /\ pRead' = pRead
          ELSE pPc' = "idle" /\ pRead' = None
    /\ UNCHANGED <<sharedVars, announcerVars, finisherVars, otherVars,
                   historyVars>>

\* && EOBReceivedTimer_.elapsed().wall / 1E6 > 1000
PromoteReadTimer ==
    /\ pPc = "timer"
    /\ IF DebounceOver(timerMs)
          THEN pPc' = "write" /\ pRead' = pRead
          ELSE pPc' = "idle" /\ pRead' = None
    /\ UNCHANGED <<sharedVars, announcerVars, finisherVars, otherVars,
                   historyVars>>

\* The store with the wrong static on its right-hand side,
\* currentBurstID_ = lastFinishedBurst_.
PromoteWriteLastFinished ==
    /\ pPc = "write"
    /\ currentBurstID_' = lastFinishedBurst_
    /\ pPc' = "idle" /\ pRead' = None
    /\ UNCHANGED <<nextBurstId_, lastFinishedBurst_, timerMs, mutexOwner,
                   announcerVars, finisherVars, otherVars, historyVars>>

\* currentBurstID_ = nextBurstId_ : the build either loads nextBurstId_ again
\* or stores the value the condition loaded (no synchronisation forbids it).
PromoteWrite ==
    /\ pPc = "write"
    /\ currentBurstID_' \in {nextBurstId_, pRead}
    /\ pPc' = "idle" /\ pRead' = None
    /\ UNCHANGED <<nextBurstId_, lastFinishedBurst_, timerMs, mutexOwner,
                   announcerVars, finisherVars, otherVars, historyVars>>

checkBurstIdChange ==
    \/ PromoteReadNext
    \/ PromoteReadCurrent
    \/ PromoteReadTimer
    \/ PromoteWrite

\* ---- checkBurstFinished(), called by thread f

FinisherStep(f, pc, read, burst) ==
    /\ fPc' = [fPc EXCEPT ![f] = pc]
    /\ fRead' = [fRead EXCEPT ![f] = read]
    /\ fBurst' = [fBurst EXCEPT ![f] = burst]

\* isInBurst(): reads nextBurstId_
FinishReadNext(f) ==
    /\ fPc[f] = "idle"
    /\ FinisherStep(f, "cur", nextBurstId_, None)
    /\ UNCHANGED <<sharedVars, announcerVars, promoterVars, sleptMs,
                   finishedCalls, otherVars, historyVars>>

\* The guard without its negation, isInBurst() && ... : the call goes on when
\* the state is InBurst.
FinishReadCurrentInBurst(f) ==
    /\ fPc[f] = "cur"
    /\ IF fRead[f] = currentBurstID_
          THEN FinisherStep(f, "last", None, None)
          ELSE FinisherStep(f, "idle", None, None)
    /\ UNCHANGED <<sharedVars, announcerVars, promoterVars, sleptMs,
                   finishedCalls, otherVars, historyVars>>

\* isInBurst(): reads currentBurstID_ ; !isInBurst() && ...
FinishReadCurrent(f) ==
    /\ fPc[f] = "cur"
    /\ IF fRead[f] # currentBurstID_
          THEN FinisherStep(f, "last", None, None)
          ELSE FinisherStep(f, "idle", None, None)
    /\ UNCHANGED <<sharedVars, announcerVars, promoterVars, sleptMs,
                   finishedCalls, otherVars, historyVars>>

\* lastFinishedBurst_ != currentBurstID_ : reads lastFinishedBurst_
FinishReadLast(f) ==
    /\ fPc[f] = "last"
    /\ FinisherStep(f, "cur2", lastFinishedBurst_, None)
    /\ UNCHANGED <<sharedVars, announcerVars, promoterVars, sleptMs,
                   finishedCalls, otherVars, historyVars>>

\* lastFinishedBurst_ != currentBurstID_ : reads currentBurstID_
FinishCompareLast(f) ==
    /\ fPc[f] = "cur2"
    /\ IF fRead[f] # currentBurstID_
          THEN FinisherStep(f, "lock", None, currentBurstID_)
          ELSE FinisherStep(f, "idle", None, None)
    /\ UNCHANGED <<sharedVars, announcerVars, promoterVars, sleptMs,
                   finishedCalls, otherVars, historyVars>>

\* burstFinishedMutex_.lock() in place of try_lock(): the call waits for the
\* mutex.
FinishLockWaiting(f) ==
    /\ fPc[f] = "lock"
    /\ mutexOwner = 0
    /\ mutexOwner' = f
    /\ sleptMs' = 0
    /\ FinisherStep(f, "sleep", None, fBurst[f])
    /\ UNCHANGED <<nextBurstId_, currentBurstID_, lastFinishedBurst_, timerMs,
                   announcerVars, promoterVars, finishedCalls, otherVars,
                   historyVars>>

\* burstFinishedMutex_.try_lock() with its result ignored: the call goes on
\* whether or not it got the mutex.
FinishTryLockUnchecked(f) ==
    /\ fPc[f] = "lock"
    /\ mutexOwner' = IF mutexOwner = 0 THEN f ELSE mutexOwner
    /\ sleptMs' = 0
    /\ FinisherStep(f, "sleep", None, fBurst[f])
    /\ UNCHANGED <<nextBurstId_, currentBurstID_, lastFinishedBurst_, timerMs,
                   announcerVars, promoterVars, finishedCalls, otherVars,
                   historyVars>>

\* if (burstFinishedMutex_.try_lock()) : never waits
FinishTryLock(f) ==
    /\ fPc[f] = "lock"
    /\ IF mutexOwner = 0
          THEN /\ mutexOwner' = f
               /\ sleptMs' = 0
               /\ FinisherStep(f, "sleep", None, fBurst[f])
          ELSE /\ UNCHANGED <<mutexOwner, sleptMs>>
               /\ FinisherStep(f, "idle", None, fBurst[f])
    /\ UNCHANGED <<nextBurstId_, currentBurstID_, lastFinishedBurst_, timerMs,
                   announcerVars, promoterVars, finishedCalls, otherVars,
                   historyVars>>

\* sleep(2) returns
FinishSleep(f) ==
    /\ fPc[f] = "sleep"
    /\ sleptMs >= SleepSeconds * 1000
    /\ sleptMs' = 0
    /\ FinisherStep(f, "notify", None, fBurst[f])
    /\ UNCHANGED <<sharedVars, announcerVars, promoterVars, finishedCalls,
                   otherVars, historyVars>>

\* onBurstFinished();
FinishNotify(f) ==
    /\ fPc[f] = "notify"
    /\ finishedCalls' = [finishedCalls EXCEPT ![fBurst[f]] =
                            IF @ < MaxCallsCounted THEN @ + 1 ELSE @]
    /\ FinisherStep(f, "record", None, fBurst[f])
    /\ UNCHANGED <<sharedVars, announcerVars, promoterVars, sleptMs,
                   otherVars, historyVars>>

\* lastFinishedBurst_ = currentBurstID_;
FinishRecord(f) ==
    /\ fPc[f] = "record"
    /\ lastFinishedBurst_' = currentBurstID_
    /\ FinisherStep(f, "unlock", None, fBurst[f])
    /\ UNCHANGED <<nextBurstId_, currentBurstID_, timerMs, mutexOwner,
                   announcerVars, promoterVars, sleptMs, finishedCalls,
                   otherVars, historyVars>>

\* burstFinishedMutex_.unlock();
FinishUnlock(f) ==
    /\ fPc[f] = "unlock"
    /\ mutexOwner' = 0
    /\ FinisherStep(f, "idle", None, None)
    /\ UNCHANGED <<nextBurstId_, currentBurstID_, lastFinishedBurst_, timerMs,
                   announcerVars, promoterVars, sleptMs, finishedCalls,
                   otherVars, historyVars>>

checkBurstFinished(f) ==
    \/ FinishReadNext(f)
    \/ FinishReadCurrent(f)
    \/ FinishReadLast(f)
    \/ FinishCompareLast(f)
    \/ FinishTryLock(f)
    \/ FinishSleep(f)
    \/ FinishNotify(f)
    \/ FinishRecord(f)
    \/ FinishUnlock(f)

\* Wall-clock time passes: the timer, the sleeper's clock and the time since
\* setNextBurstID was last entered advance.
Tick ==
    /\ timerMs' = Advance(timerMs)
    /\ sinceCallMs' = Advance(sinceCallMs)
    /\ sleptMs' = IF \E f \in Finishers : fPc[f] = "sleep"
                     THEN Advance(sleptMs) ELSE sleptMs
    /\ UNCHANGED <<nextBurstId_, currentBurstID_, lastFinishedBurst_,
                   mutexOwner, announcerVars, promoterVars, fPc, fRead,
                   fBurst, finishedCalls, otherVars>>

\* The burst ids announced grow: the ordering upstream is assumed to keep.
BurstNext ==
    \/ \E id \in BurstIds : id >= nextBurstId_ /\ SetNextWrite(id)
    \/ SetNextStartTimer
    \/ checkBurstIdChange
    \/ \E f \in Finishers : checkBurstFinished(f)
    \/ Tick

\* initialize(StartBurstId) has run; no MEP is under way.
BurstSpecInit == BurstInit /\ MEPIdle /\ FrameIdle

BurstSpec == BurstSpecInit /\ [][BurstNext]_vars

\* setNextBurstID, with any id, and checkBurstIdChange alone.
PromoteNext ==
    \/ \E id \in BurstIds : SetNextWrite(id)
    \/ SetNextStartTimer
    \/ checkBurstIdChange
    \/ Tick

PromoteSpec == BurstSpecInit /\ [][PromoteNext]_vars

\* Time passes, and the maintenance path keeps polling checkBurstIdChange.
FairPromoteSpec ==
    PromoteSpec /\ WF_vars(Tick) /\ WF_vars(checkBurstIdChange)

FrameSpecInit == FrameInit /\ MEPIdle /\ BurstIdle

FrameSpec == FrameSpecInit /\ [][FrameNext]_vars

\* The life of one MEP: construction, slicing, the fragments' reports and the
\* release of the buffer.
LifecycleNext ==
    \/ Construct
    \/ initializeMEPFragments
    \/ \E f \in FragmentIds : deleteEvent(f)
    \/ \E f \in FragmentIds : DestroyMEP(f)

LifecycleSpec == FrameSpecInit /\ [][LifecycleNext]_vars

Init == MEPInit /\ BurstIdle /\ FrameIdle

Next == MEPNext

Spec == Init /\ [][Next]_vars

OverrunSpec == Init /\ [][OverrunNext]_vars

(***************************************************************************)
(* Claims about the completion protocol (checked under Spec)               *)
(***************************************************************************)

Fragments == 1..eventCount

\* Every fragment of the MEP has made its one call of deleteEvent.
AllReported == \A f \in Fragments : frag[f] # "alive"

\* The fragments whose call of deleteEvent returned true.
SawTrue == {f \in Fragments : frag[f] \in {"true", "destroyed"}}

\* The fragments whose call of deleteEvent returned false.
SawFalse == {f \in Fragments : frag[f] = "false"}

\* No step of the protocol is left to take.
Quiescent == AllReported /\ \A f \in Fragments : frag[f] # "true"

\* C1: with the counter initialised to eventCount = N >= 1, at most one call of
\* deleteEvent ever returns true, and once all N calls have been made, in
\* whatever order, exactly one returned true and the N - 1 others false.
C1_ExactlyOneObservesZero ==
    /\ Cardinality(SawTrue) <= 1
    /\ (eventCount >= 1 /\ AllReported) =>
            /\ Cardinality(SawTrue) = 1
            /\ Cardinality(SawFalse) = eventCount - 1

\* C1 witness: all calls of a MEP with at least three fragments are made.
C1_Witness == eventCount >= 3 /\ AllReported /\ Cardinality(SawTrue) = 1

\* C2: the buffer is released only when every fragment has reported and the
\* completion counter is zero.
C2_NoReleaseBeforeAllReported ==
    released > 0 => (AllReported /\ eventCount_ = 0)

\* C2 witness: the buffer of a MEP with several fragments has been released.
C2_Witness == released = 1 /\ eventCount >= 2

\* C3: for any eventCount in 0..255, once every fragment has reported exactly
\* once and no caller is left to act, the buffer has been released, and it has
\* been released exactly once.
C3_ReleasedExactlyOnce ==
    /\ released <= 1
    /\ Quiescent => released = 1

(***************************************************************************)
(* Claims about BurstIdHandler                                             *)
(***************************************************************************)

\* C4: onBurstFinished() is invoked exactly once per burst id that ends,
\* however the polling threads interleave; in every reachable state no burst
\* id has had the callback invoked for it more than once.
C4_FinishedOncePerBurst == \A b \in BurstIds : finishedCalls[b] <= 1

\* C5: checkBurstIdChange never changes currentBurstID_ when less than the
\* debounce threshold has elapsed since the most recent setNextBurstID: with
\* no call of setNextBurstID in progress, a store that changes currentBurstID_
\* is made at least the threshold after the most recent call was entered.
C5_NoPromotionBeforeDebounce ==
    [][(pPc = "write" /\ aPc = "idle" /\ currentBurstID_' # currentBurstID_)
            => sinceCallMs >= DebounceMs]_vars

\* A step of checkBurstIdChange that ends the call without a store.
PromoteGivesUp == pPc' = "idle" /\ UNCHANGED currentBurstID_

\* C6 as claimed: with nextBurstId_ # currentBurstID_ and no announcement under
\* way, a checkBurstIdChange call that reads an elapsed time at or after the
\* threshold (>= 1 s) goes on to set currentBurstID_ to nextBurstId_.
C6_PromotesAtThreshold ==
    [][/\ (pPc = "timer" /\ pPc' # pPc /\ aPc = "idle"
                /\ timerMs >= DebounceMs)
            => ~PromoteGivesUp
       /\ (pPc = "write" /\ pPc' # pPc /\ pRead = nextBurstId_)
            => currentBurstID_' = nextBurstId_]_vars

\* C6 amended, the safety half: the same with an elapsed time past the
\* threshold (> 1 s).
C6_PromotesPastThresholdStep ==
    [][/\ (pPc = "timer" /\ pPc' # pPc /\ aPc = "idle"
                /\ timerMs > DebounceMs)
            => ~PromoteGivesUp
       /\ (pPc = "write" /\ pPc' # pPc /\ pRead = nextBurstId_)
            => currentBurstID_' = nextBurstId_]_vars

\* A step of setNextBurstID.
AnnounceStep == aPc' # aPc

\* C6 amended: a call that reads an elapsed time past the threshold (> 1 s)
\* sets currentBurstID_ to nextBurstId_, and when the announcements stop, under
\* periodic polling the state returns to InBurst and stays there.
C6_PromotesPastThreshold ==
    /\ C6_PromotesPastThresholdStep
    /\ (<>[][~AnnounceStep]_vars) => <>[]isInBurst

\* C6 witness: a promotion has just been made from Draining, after the
\* threshold, and the state is InBurst again with a burst other than the first.
C6_Witness ==
    /\ isInBurst /\ currentBurstID_ # StartBurstId
    /\ pPc = "idle" /\ aPc = "idle" /\ timerMs > DebounceMs

(***************************************************************************)
(* Claims about construction and slicing (checked under FrameSpec)         *)
(***************************************************************************)

\* The constructor has run on the received frame.
Constructed == phase \in {"constructed", "sliced", "rejected"}

\* initializeMEPFragments has run on the constructed MEP.
Sliced == phase \in {"sliced", "rejected"} /\ ctorError = "none"

\* The received length or the header's mepLength is inconsistent.
BadLength == dataLength < HeaderSize \/ hdr.mepLength # dataLength

\* C7: construction fails with MalformedFrame and yields no decoder whenever
\* the received length is below the header size or differs from mepLength,
\* and does not raise MalformedFrame for any other frame.
C7_MalformedFrameIffBadLength ==
    Constructed =>
        /\ BadLength => (ctorError = "MalformedFrame" /\ phase = "rejected")
        /\ ~BadLength => ctorError # "MalformedFrame"

\* C7 witness: a frame shorter than its header's mepLength has been rejected
\* (the spec's example: 60 bytes received, mepLength 64).
C7_Witness ==
    /\ phase = "rejected" /\ ctorError = "MalformedFrame"
    /\ dataLength >= HeaderSize /\ hdr.mepLength > dataLength

\* C8: construction from a frame of consistent length whose sourceID the
\* registry does not map fails with UnknownSource, whatever firstEventNum,
\* eventCount and sourceSubID are.
C8_UnknownSource ==
    (Constructed /\ ~BadLength /\ hdr.sourceID \notin DOMAIN DenseIndexOf) =>
        (ctorError = "UnknownSource" /\ phase = "rejected")

\* C8 witness: such a frame, with the other header fields non-zero, rejected.
C8_Witness ==
    /\ phase = "rejected" /\ ctorError = "UnknownSource"
    /\ hdr.firstEventNum > 0 /\ hdr.eventCount > 0 /\ hdr.sourceSubID > 0

RECURSIVE SumOfLengths(_)
SumOfLengths(vs) ==
    IF vs = <<>> THEN 0 ELSE Head(vs)[2] + SumOfLengths(Tail(vs))

\* The view's byte range lies inside the dataLength bytes received.
InsideBuffer(v) == v[1] >= 0 /\ v[2] >= 0 /\ v[1] + v[2] <= dataLength

\* Two views share no byte.
Disjoint(v, w) == v[1] + v[2] <= w[1] \/ w[1] + w[2] <= v[1]

\* C9: for every frame initializeMEPFragments accepts, there are exactly
\* eventCount views, they are disjoint ranges inside the buffer, and their
\* lengths plus the packed header's size, (24+8+16+8+8)/8 bytes, add up to
\* mepLength.
C9_ViewsCoverFrame ==
    phase = "sliced" =>
        /\ Len(views) = hdr.eventCount
        /\ \A i \in 1..Len(views) : InsideBuffer(views[i])
        /\ \A i, j \in 1..Len(views) : i < j => Disjoint(views[i], views[j])
        /\ SumOfLengths(views) + (24 + 8 + 16 + 8 + 8) \div 8 = hdr.mepLength

\* C9 witness: a frame sliced into fragments of different lengths.
C9_Witness ==
    /\ phase = "sliced" /\ hdr.eventCount >= 2
    /\ \E i, j \in 1..Len(views) : views[i][2] > views[j][2] /\ views[j][2] > 0

\* The payload runs out before fragment number count, or a fragment's length
\* leads past the end of the buffer, walking from fragment i at offset.
RECURSIVE Truncated(_, _)
Truncated(i, offset) ==
    /\ i < hdr.eventCount
    /\ \/ offset >= dataLength
       \/ offset + lenAt[offset] > dataLength
       \/ Truncated(i + 1, offset + lenAt[offset])

\* C10: initializeMEPFragments fails with MalformedFrame whenever the payload
\* is exhausted before eventCount fragments are sliced or a fragment's length
\* runs past the end of the buffer, and no view it yields lies outside the
\* buffer.
C10_TruncatedIsMalformed ==
    Sliced =>
        /\ Truncated(0, HeaderSize) =>
                (sliceError = "MalformedFrame" /\ phase = "rejected")
        /\ \A i \in 1..Len(views) : InsideBuffer(views[i])

\* C10 witness: a frame whose second fragment runs past the end is rejected.
C10_Witness ==
    /\ Sliced /\ sliceError = "MalformedFrame" /\ hdr.eventCount >= 2
    /\ dataLength > HeaderSize + lenAt[HeaderSize]
    /\ lenAt[HeaderSize] > 0
    /\ HeaderSize + lenAt[HeaderSize] + lenAt[HeaderSize + lenAt[HeaderSize]]
            > dataLength

(***************************************************************************)
(* Further claims about BurstIdHandler                                     *)
(***************************************************************************)

\* C11: after initialize(id), and until the first setNextBurstID with another
\* id (under BurstSpec: while nextBurstId_ is still the start id), both ids
\* equal id and isInBurst() holds, whatever calls of checkBurstIdChange and
\* checkBurstFinished are made; these calls take no lock, invoke no
\* onBurstFinished() and change neither currentBurstID_ nor lastFinishedBurst_.
C11_InBurstUntilAnnounced ==
    /\ [](nextBurstId_ = StartBurstId =>
            /\ currentBurstID_ = StartBurstId
            /\ isInBurst
            /\ mutexOwner = 0
            /\ \A b \in BurstIds : finishedCalls[b] = 0)
    /\ [][nextBurstId_' = StartBurstId =>
            UNCHANGED <<currentBurstID_, lastFinishedBurst_>>]_vars

\* C11 witness: long after initialize, with the start id announced again and
\* both pollers inside their calls, the state is still InBurst.
C11_Witness ==
    /\ nextBurstId_ = StartBurstId /\ isInBurst
    /\ aPc = "start" /\ aArg = StartBurstId /\ timerMs > DebounceMs
    /\ pPc = "cur"
    /\ \E f \in Finishers : fPc[f] = "cur"

\* C12: setNextBurstID(id) stores id in nextBurstId_ and then restarts the
\* timer, for every id and in every state, and changes neither
\* currentBurstID_ nor lastFinishedBurst_; no step of checkBurstIdChange
\* changes nextBurstId_ or the timer.
C12_AnnounceFrame ==
    [][/\ (aPc = "idle" /\ aPc' = "start") =>
            /\ nextBurstId_' = aArg'
            /\ UNCHANGED <<currentBurstID_, lastFinishedBurst_>>
       /\ (aPc = "start" /\ aPc' = "idle") =>
            /\ nextBurstId_' = aArg
            /\ timerMs' = 0
            /\ UNCHANGED <<currentBurstID_, lastFinishedBurst_>>
       /\ (pPc' # pPc) => UNCHANGED <<nextBurstId_, timerMs>>]_vars

\* C12 witness: a burst other than the first is current and has just been
\* announced again: the id is kept and the timer has restarted.
C12_Witness ==
    /\ aPc = "idle" /\ pPc = "idle"
    /\ currentBurstID_ # StartBurstId /\ nextBurstId_ = currentBurstID_
    /\ timerMs = 0 /\ sinceCallMs = 0

C14_ContendedCallIsNoOp ==
    /\ [](\A f \in Finishers : fPc[f] = "lock" => ENABLED FinishTryLock(f))
    /\ [][\A f \in Finishers :
            (fPc[f] = "lock" /\ fPc'[f] # "lock" /\ mutexOwner # 0) =>
                /\ fPc'[f] = "idle"
                /\ UNCHANGED <<currentBurstID_, nextBurstId_,
                               lastFinishedBurst_, mutexOwner,
                               finishedCalls>>]_vars

\* C14 witness: a call has returned from try_lock while the other thread,
\* still in its settling delay, holds the mutex.
C14_Witness ==
    \E f \in Finishers :
        /\ fPc[f] = "idle" /\ fBurst[f] # None
        /\ mutexOwner # 0 /\ mutexOwner # f
        /\ fPc[mutexOwner] = "sleep"

\* Thread f is between try_lock() succeeding and unlock().
InSection(f) == fPc[f] \in {"sleep", "notify", "record", "unlock"}

\* C15: at most one thread at a time is in the section made of the settling
\* delay, onBurstFinished() and the store to lastFinishedBurst_; the thread in
\* it holds the mutex, and lastFinishedBurst_ is stored only by that thread.
C15_OneThreadInSection ==
    /\ [](\A f, g \in Finishers : (InSection(f) /\ InSection(g)) => f = g)
    /\ [](\A f \in Finishers : InSection(f) => mutexOwner = f)
    /\ [][lastFinishedBurst_' # lastFinishedBurst_ =>
            /\ mutexOwner \in Finishers
            /\ fPc[mutexOwner] = "record"
            /\ fPc'[mutexOwner] = "unlock"]_vars

\* C15 witness: one thread is invoking onBurstFinished() while the other has
\* passed the guard and is about to try the mutex.
C15_Witness ==
    \E f, g \in Finishers :
        /\ f # g
        /\ fPc[f] = "notify" /\ mutexOwner = f
        /\ fPc[g] = "lock"

\* C18: the id a checkBurstFinished call stores in lastFinishedBurst_ is the
\* value currentBurstID_ had when the call passed its guard (the burst that
\* ended), also when checkBurstIdChange changes currentBurstID_ during the
\* settling delay.
C18_RecordsBurstThatEnded ==
    [][\A f \in Finishers :
            (fPc[f] = "record" /\ fPc'[f] = "unlock") =>
                lastFinishedBurst_' = fBurst[f]]_vars

(***************************************************************************)
(* Further claims about the MEP                                            *)
(***************************************************************************)

\* The counter has gone below zero: it is negative, or it has wrapped round to
\* the values above its start value.
PassedZero == eventCount_ < 0 \/ eventCount_ > eventCount

\* C16: in a sequence of fewer than 2^32 calls of deleteEvent on one MEP, calls
\* beyond eventCount included, at most one call returns true, and once the
\* counter has passed zero no call returns true any more.
C16_AtMostOneTrue ==
    /\ [](Cardinality(SawTrue) + extraTrue <= 1)
    /\ [][PassedZero => (extraTrue' = extraTrue /\ SawTrue' = SawTrue)]_vars

\* C16 witness: after one call returned true the calls went on until the
\* counter wrapped round and came down to just above its start value.
C16_Witness ==
    /\ eventCount >= 1
    /\ Cardinality(SawTrue) + extraTrue = 1
    /\ eventCount_ = eventCount + 1

\* The number of calls of deleteEvent the fragments have made.
Reports ==
    Cardinality({f \in FragmentIds :
                    frag[f] \in {"true", "false", "destroyed"}})

====
